---- MODULE Spec2Model ----
(***************************************************************************)
(* Model of the task agent of src/agent.py and its driver src/main.py:     *)
(* the command translator, the plan parser and safety check of             *)
(* generate_plan, the readiness check _wait_for_model, execute_command and *)
(* the orchestration of run_task.                                          *)
(*                                                                         *)
(* Python strings are TLA+ strings; TLC evaluates Len, SubSeq, Head, Tail  *)
(* and \o on them, so the str methods the agent uses are written out below *)
(* character by character.                                                 *)
(*                                                                         *)
(* The agent is one thread.  Its position is pc:                           *)
(*   "main"     main() waits for a task at its prompt                      *)
(*   "probe"    _wait_for_model is about to post a readiness probe         *)
(*   "request"  generate_plan is about to post the generation request      *)
(*   "parse"    generate_plan loops over the lines of the plan text        *)
(*   "confirm"  run_task has shown the plan and asks whether to proceed    *)
(*   "step"     run_task is at the head of its loop over the plan          *)
(*   "running"  execute_command waits in subprocess.run                    *)
(*   "retry"    run_task asks whether to retry after a failed step         *)
(*   "return"   run_task returns to its caller                             *)
(*   "exited"   main() has left its loop                                   *)
(*   "crashed"  an exception has left generate_plan                        *)
(* The lines of a reply are drawn one by one as the loop reaches them:     *)
(* they are the lines of plan_text as the loop splits it, that is after    *)
(* the text before a "<|assistant|>" or "Here's the plan" marker was cut.  *)
(***************************************************************************)
EXTENDS Integers, Sequences, FiniteSets, TLC

VARIABLES
    pc,             \* the position of the agent (see above)
    api_url,        \* self.api_url
    retry_count,    \* _wait_for_model: retry_count
    steps,          \* generate_plan: steps
    current_step,   \* generate_plan: current_step
    plan,           \* run_task: plan
    i,              \* run_task: the index of the step the loop is at (from 1)
    stack,          \* the run_task calls suspended in self.run_task(new_task)
    elapsed,        \* how long the subprocess of execute_command has been running
    probes,         \* history: the probes posted by the current _wait_for_model call
    last_probe,     \* history: the answer to the last of them
    url_at_call,    \* history: self.api_url when that call began
    rate_limited,   \* history: the 429 answers to the generation requests of this run
    line,           \* history: the line the parsing loop consumed last
    nlines,         \* history: the number of lines it has consumed
    boundaries,     \* history: the number of step-boundary lines among them
    flush_due,      \* history: how many of these met an accumulator with a description
    deny_seen,      \* history: a step of the text had a deny-listed Command: value
    gen_status,     \* history: the status of the answer to the generation request
    gen_failure,    \* history: the exception generate_plan caught ("" when none)
    run,            \* history: the state of this run_task call and the steps it ran
    cmd,            \* translator harness: the argument of _convert_to_windows_command
    converted       \* translator harness: its outcome, or NotCalled

agent_vars == <<pc, api_url, retry_count, steps, current_step, plan, i, stack, elapsed>>

history_vars ==
    <<probes, last_probe, url_at_call, rate_limited, line, nlines, boundaries,
      flush_due, deny_seen, gen_status, gen_failure, run>>

harness_vars == <<cmd, converted>>

vars == <<agent_vars, history_vars, harness_vars>>

(***************************************************************************)
(* Bounds of the model.                                                    *)
(***************************************************************************)
MaxTokens == 3      \* a translator input is at most this many tokens long

MaxLines == 4       \* a plan text is at most this many lines long

MaxDepth == 1       \* at most this many run_task calls are suspended in a retry

MaxRateLimited == 3 \* at most this many 429 answers to generation requests per run

ExecTimeout == 2    \* the execution timeout of the specification, in ticks

MaxElapsed == 3     \* the subprocess is watched for this many ticks

(***************************************************************************)
(* Python str methods.                                                     *)
(***************************************************************************)
Whitespace == {" ", "\t", "\n", "\r"}

Digits == {"0", "1", "2", "3", "4", "5", "6", "7", "8", "9"}

Char(s, k) == SubSeq(s, k, k)

\* s.startswith(p)
startswith(s, p) == Len(p) <= Len(s) /\ SubSeq(s, 1, Len(p)) = p

\* whether p occurs in s at position k
occurs_at(s, p, k) == SubSeq(s, k, k + Len(p) - 1) = p

\* s.find(p) + 1: the position of the leftmost occurrence of p in s, 0 when none
find(s, p) ==
    LET last == Len(s) - Len(p) + 1
    IN  IF \E k \in 1..last : occurs_at(s, p, k)
        THEN CHOOSE k \in 1..last :
                occurs_at(s, p, k) /\ \A j \in 1..(k - 1) : ~occurs_at(s, p, j)
        ELSE 0

\* p in s
contains(s, p) == find(s, p) # 0

\* s.replace(old, new): every non-overlapping occurrence, left to right
RECURSIVE replace(_, _, _)
replace(s, old, new) ==
    LET k == find(s, old)
    IN  IF k = 0 THEN s
        ELSE SubSeq(s, 1, k - 1) \o new
             \o replace(SubSeq(s, k + Len(old), Len(s)), old, new)

\* s.split(sep): the list of the pieces between the occurrences of sep
RECURSIVE split(_, _)
split(s, sep) ==
    LET k == find(s, sep)
    IN  IF k = 0 THEN <<s>>
        ELSE <<SubSeq(s, 1, k - 1)>> \o split(SubSeq(s, k + Len(sep), Len(s)), sep)

\* s.strip(chars): from the first to the last character that is not in chars
strip_chars(s, chars) ==
    LET n == Len(s)
        kept(k) == Char(s, k) \notin chars
    IN  IF \A k \in 1..n : ~kept(k) THEN ""
        ELSE SubSeq(s,
                    CHOOSE k \in 1..n : kept(k) /\ \A j \in 1..(k - 1) : ~kept(j),
                    CHOOSE k \in 1..n : kept(k) /\ \A j \in (k + 1)..n : ~kept(j))

\* s.strip()
strip(s) == strip_chars(s, Whitespace)

\* the lower-case letter of each upper-case letter
ToLower ==
    [A |-> "a", B |-> "b", C |-> "c", D |-> "d", E |-> "e", F |-> "f", G |-> "g", H |-> "h", I |-> "i", J |-> "j", K |-> "k", L |-> "l", M |-> "m",
     N |-> "n", O |-> "o", P |-> "p", Q |-> "q", R |-> "r", S |-> "s", T |-> "t", U |-> "u", V |-> "v", W |-> "w", X |-> "x", Y |-> "y", Z |-> "z"]

lower_char(c) == IF c \in DOMAIN ToLower THEN ToLower[c] ELSE c

\* s.lower()
RECURSIVE lower(_)
lower(s) == IF s = "" THEN "" ELSE lower_char(Head(s)) \o lower(Tail(s))

\* s[0].isdigit(), for a non-empty s
isdigit(c) == c \in Digits

(***************************************************************************)
(* Outcome of a call: a returned value, or an exception that leaves it.    *)
(***************************************************************************)
Return(v) == [raised |-> FALSE, value |-> v]

Raise(e) == [raised |-> TRUE, value |-> e]

NotCalled == [raised |-> FALSE, value |-> "<not called>"]

(***************************************************************************)
(* TaskAgent._convert_to_windows_command                                   *)
(***************************************************************************)
\* The backquote of cmd.strip('`'). SANY rejects a backquote inside a string
\* literal, so the model writes that one character as "@", which occurs in
\* no literal of the agent and stands for nothing else in the inputs.
Backquote == "@"

\* the 'echo -e' branch: cmd.split('echo -e ')[1] raises IndexError when the
\* separator (with its trailing blank) does not occur in cmd
convert_echo(c) ==
    LET parts == split(c, "echo -e ")
    IN  IF Len(parts) < 2 THEN Raise("IndexError")
        ELSE LET content == strip_chars(strip_chars(parts[2], {"\""}), {"'"})
                 escaped == replace(replace(content, "\\n", "\n"), "\"", "\\\"")
             IN  Return("echo " \o escaped)

\* a translator that gives every command the path separators of the mkdir rule
pass_through_separators(c) == Return(replace(c, "/", "\\"))

\* return cmd: the last line of the translator, for a command no rule matched
pass_through(c) == Return(c)

\* "Common Unix to Windows command mappings", on the stripped command
convert_rules(c) ==
    IF startswith(c, "rm ") THEN Return("del " \o replace(c, "rm ", ""))
    ELSE IF startswith(c, "touch ") THEN Return("echo. > " \o replace(c, "touch ", ""))
    ELSE IF startswith(c, "echo -e") THEN convert_echo(c)
    ELSE IF startswith(c, "ls")
        THEN Return(replace(replace(replace(c, "ls -la", "dir"), "ls -l", "dir"), "ls", "dir"))
    ELSE IF startswith(c, "pwd") THEN Return("cd")
    ELSE IF startswith(c, "chmod") THEN Return("rem Skipping chmod (not needed on Windows)")
    ELSE IF startswith(c, "cat ") THEN Return("type " \o replace(c, "cat ", ""))
    ELSE IF startswith(c, "./") THEN Return("python " \o SubSeq(c, 3, Len(c)))
    ELSE IF startswith(c, "nano ") THEN Return("notepad " \o replace(c, "nano ", ""))
    ELSE IF startswith(c, "mkdir ")
        THEN Return("mkdir " \o replace(replace(c, "mkdir ", ""), "/", "\\"))
    ELSE pass_through(c)

\* "Remove backticks if present", then the mappings
_convert_to_windows_command(cmd0) == convert_rules(strip(strip_chars(cmd0, {Backquote})))

(***************************************************************************)
(* Python dicts with str keys and str values: functions on a set of keys.  *)
(***************************************************************************)
EmptyDict == [k \in {} |-> ""]

has(d, k) == k \in DOMAIN d

put(d, k, v) == [x \in DOMAIN d \cup {k} |-> IF x = k THEN v ELSE d[x]]


(***************************************************************************)
(* TaskAgent.__init__ and TaskAgent._wait_for_model                        *)
(***************************************************************************)
PrimaryUrl == "https://api-inference.huggingface.co/models/mistralai/Mistral-7B-Instruct-v0.2"

FallbackUrl == "https://api-inference.huggingface.co/models/TinyLlama/TinyLlama-1.1B-Chat-v1.0"

\* a readiness check that allows one probe more
one_retry_more == 3 + 1

max_retries == 3

\* what requests.post can come back with: an exception, or a response with a
\* status code and a body
HttpReplies ==
    {[raised |-> TRUE, status_code |-> 0, body |-> "none"]}
    \cup [raised : {FALSE}, status_code : {200, 202, 429, 503},
          body : {"generated_text", "no generated_text", "not json"}]

\* response.raise_for_status() raises for the 4xx and 5xx codes
raises_for_status(status_code) == 400 <= status_code /\ status_code < 600

(***************************************************************************)
(* TaskAgent.generate_plan: the parsing loop and what follows it.          *)
(***************************************************************************)
\* a flush that appends the accumulator whatever it holds
flush_unconditional(stps, cur) == Append(stps, cur)

\* if current_step and 'description' in current_step: steps.append(current_step)
flush(stps, cur) == IF has(cur, "description") THEN Append(stps, cur) ELSE stps

NoCommandWords == {"n/a", "none", "no command"}

\* the branch of a 'Command:' line; .error takes the exception of the translator
command_line(st, ln) ==
    LET c == strip(replace(ln, "Command:", ""))
    IN  IF c # "" /\ lower(c) \notin NoCommandWords
        THEN LET r == _convert_to_windows_command(c)
             IN  IF r.raised THEN [st EXCEPT !.error = r.value]
                 ELSE IF r.value # ""
                     THEN [st EXCEPT !.current_step = put(@, "command", r.value)]
                 ELSE st
        ELSE st

\* one iteration of the loop over plan_text.split('\n'), on the loop's state
\* st = [steps, current_step, error]
parse_line(st, raw) ==
    LET ln == strip(raw)
    IN  IF ln = "" THEN st
        ELSE IF isdigit(Char(ln, 1)) /\ contains(ln, ": Description:")
            THEN [st EXCEPT
                    !.steps = flush(@, st.current_step),
                    !.current_step =
                        put(EmptyDict, "description", strip(split(ln, ": Description:")[2]))]
        ELSE IF startswith(ln, "Step")
            THEN [st EXCEPT !.steps = flush(@, st.current_step), !.current_step = EmptyDict]
        ELSE IF startswith(ln, "Description:")
            THEN [st EXCEPT !.current_step =
                    put(@, "description", strip(replace(ln, "Description:", "")))]
        ELSE IF startswith(ln, "Command:") THEN command_line(st, ln)
        ELSE IF startswith(ln, "Validation:")
            THEN [st EXCEPT !.current_step =
                    put(@, "validation", strip(replace(ln, "Validation:", "")))]
        ELSE st

\* a filter that keeps the skipped commands
keep_step_with_skipped(step) == has(step, "command")

\* "Filter out steps without commands or with skipped commands"
keep_step(step) == has(step, "command") /\ ~startswith(step.command, "rem Skipping")

filter_steps(stps) == SelectSeq(stps, keep_step)

UnsafePatterns == {"rm -rf /", "mkfs", ":(){:|:&};:", "format c:"}

\* a safety check that reads the command without lowering it
is_unsafe_case_sensitive(command) == \E unsafe \in UnsafePatterns : contains(command, unsafe)

\* "Basic safety check"
is_unsafe(command) == \E unsafe \in UnsafePatterns : contains(lower(command), unsafe)

\* lines 213-225, on the steps the loop and the flush after it appended: the
\* plan generate_plan returns, or the exception it raises
checked_plan(appended) ==
    LET kept == filter_steps(appended)
    IN  IF kept = <<>> THEN Raise("No valid steps generated")
        ELSE IF \E k \in 1..Len(kept) : is_unsafe(kept[k].command)
            THEN Raise("Unsafe command detected")
        ELSE Return(kept)

\* "Return a simple diagnostic plan"
FallbackPlan ==
    << [description |-> "Create a Python file to check if a number is odd or even",
        command |-> "echo print(\"Even\" if int(input(\"Enter a number: \")) % 2 == 0 else \"Odd\") > test.py",
        validation |-> "Check if the file was created with the correct code"] >>

\* a generate_plan without its except clause
except_reraise(outcome) == outcome

\* except Exception as e: what generate_plan makes of the outcome of its try block
except_fallback(outcome) == IF outcome.raised THEN Return(FallbackPlan) ELSE outcome

(***************************************************************************)
(* TaskAgent.execute_command                                               *)
(***************************************************************************)
\* if not command or command.strip() == '': raise ValueError(...)
is_empty_command(command) == command = "" \/ strip(command) = ""

\* how subprocess.run can end: with a return code, or with an exception
ProcessEnds ==
    {[raised |-> TRUE, returncode |-> 0]} \cup [raised : {FALSE}, returncode : {0, 1}]

\* the success flag execute_command returns for the way the subprocess ended
command_success(end) == ~end.raised /\ end.returncode = 0

(***************************************************************************)
(* History: what the properties below read about the text and the run.     *)
(***************************************************************************)
\* a line that is a step boundary: a numbered 'k: Description:' line, a line
\* starting with 'Step', a line starting with 'Description:'
is_boundary(raw) ==
    LET ln == strip(raw)
    IN  \/ ln # "" /\ isdigit(Char(ln, 1)) /\ contains(ln, ": Description:")
        \/ startswith(ln, "Step")
        \/ startswith(ln, "Description:")

\* the value of a 'Command:' line
command_value(raw) == strip(replace(strip(raw), "Command:", ""))

is_command_line(raw) == startswith(strip(raw), "Command:")

\* a 'Command:' line whose value is 'n/a', 'none' or 'no command' in any case
is_no_command_line(raw) ==
    is_command_line(raw) /\ lower(command_value(raw)) \in {"n/a", "none", "no command"}

\* a 'Command:' line whose value contains a deny-listed pattern
is_deny_command_line(raw) ==
    /\ is_command_line(raw)
    /\ \E p \in {"rm -rf /", "mkfs", ":(){:|:&};:", "format c:"} :
            contains(lower(command_value(raw)), p)

\* a run_task call: where it is, the length of the plan it was given, whether
\* the user confirmed it, and the steps it started, each with its result
NoRun == [state |-> "none", len |-> 0, confirmed |-> FALSE, executed |-> <<>>]

NewRun == [state |-> "planning", len |-> 0, confirmed |-> FALSE, executed |-> <<>>]

(***************************************************************************)
(* The inputs of the model.                                                *)
(***************************************************************************)
\* what the user types at the prompt of main()
Tasks == {"exit", "Q", "  ", "list my files"}

\* the lines a plan text is made of, in the runs of the whole agent
AgentLines ==
    {"1: Description: A", "Command: ls", "Command: rm -rf /", "Command: Format C:",
     "Command: echo -e"}

\* the lines a plan text is made of, where the parser is checked by itself
ParserLines ==
    AgentLines
    \cup {"Step 2:", "Description: B", "Description:", "Command: N/A",
          "Command: chmod +x a", "Command: " \o Backquote \o Backquote,
          " Validation: ok", ""}

(***************************************************************************)
(* Initial state: TaskAgent.__init__ has run, main() is at its prompt.     *)
(***************************************************************************)
AgentInit ==
    /\ pc = "main"
    /\ api_url = PrimaryUrl
    /\ retry_count = 0
    /\ steps = <<>>
    /\ current_step = EmptyDict
    /\ plan = <<>>
    /\ i = 0
    /\ stack = <<>>
    /\ elapsed = 0
    /\ probes = 0
    /\ last_probe = 0
    /\ url_at_call = PrimaryUrl
    /\ rate_limited = 0
    /\ line = ""
    /\ nlines = 0
    /\ boundaries = 0
    /\ flush_due = 0
    /\ deny_seen = FALSE
    /\ gen_status = 0
    /\ gen_failure = ""
    /\ run = NoRun

Init ==
    /\ AgentInit
    /\ cmd = ""
    /\ converted = NotCalled

(***************************************************************************)
(* generate_plan begins (line 123): it calls _wait_for_model.              *)
(***************************************************************************)
EnterGeneratePlan ==
    /\ pc' = "probe"
    /\ retry_count' = 0
    /\ probes' = 0
    /\ last_probe' = 0
    /\ url_at_call' = api_url
    /\ UNCHANGED api_url

\* generate_plan ends: the outcome of its try block goes through the except
\* clause, and the plan is returned to run_task, which shows it and asks
Deliver(outcome) ==
    LET out == except_fallback(outcome)
    IN  /\ gen_failure' = IF outcome.raised THEN outcome.value ELSE ""
        /\ IF out.raised
           THEN pc' = "crashed" /\ UNCHANGED <<plan, run>>
           ELSE /\ pc' = "confirm"
                /\ plan' = out.value
                /\ run' = [run EXCEPT !.state = "awaiting", !.len = Len(out.value)]

(***************************************************************************)
(* main(): one turn of its loop.                                           *)
(***************************************************************************)
MainPrompt(task) ==
    /\ pc = "main"
    /\ IF lower(task) \in {"exit", "quit", "q"}
       THEN /\ pc' = "exited"
            /\ UNCHANGED <<api_url, retry_count, probes, last_probe, url_at_call,
                           rate_limited, run>>
       ELSE IF strip(task) # ""
       THEN /\ EnterGeneratePlan
            /\ rate_limited' = 0
            /\ run' = NewRun
       ELSE UNCHANGED <<pc, api_url, retry_count, probes, last_probe, url_at_call,
                        rate_limited, run>>
    /\ UNCHANGED <<steps, current_step, plan, i, stack, elapsed, line, nlines,
                   boundaries, flush_due, deny_seen, gen_status, gen_failure, harness_vars>>

(***************************************************************************)
(* _wait_for_model: one probe, and the end of the loop when it was the     *)
(* last one.                                                               *)
(***************************************************************************)
Probe(reply) ==
    /\ pc = "probe"
    /\ retry_count < max_retries
    /\ probes' = probes + 1
    /\ last_probe' = reply.status_code
    /\ IF ~reply.raised /\ reply.status_code = 200
       THEN /\ pc' = "request"
            /\ UNCHANGED <<api_url, retry_count>>
       ELSE /\ retry_count' = retry_count + 1
            /\ IF retry_count + 1 < max_retries
               THEN pc' = "probe" /\ UNCHANGED api_url
               ELSE pc' = "request" /\ api_url' = FallbackUrl
    /\ UNCHANGED <<steps, current_step, plan, i, stack, elapsed, url_at_call,
                   rate_limited, line, nlines, boundaries, flush_due, deny_seen, gen_status, gen_failure,
                   run, harness_vars>>

(***************************************************************************)
(* generate_plan: the generation request and its answer (lines 131-174).   *)
(***************************************************************************)
GenReply(reply) ==
    /\ pc = "request"
    /\ IF ~reply.raised /\ reply.status_code = 429
       THEN \* return self.generate_plan(task)
            /\ rate_limited < MaxRateLimited
            /\ rate_limited' = rate_limited + 1
            /\ EnterGeneratePlan
            /\ UNCHANGED <<plan, run, gen_status, gen_failure, steps, current_step>>
       ELSE /\ UNCHANGED <<api_url, retry_count>>
            /\ gen_status' = reply.status_code
            /\ rate_limited' = 0
            /\ url_at_call' = api_url
            /\ probes' = 0
            /\ last_probe' = 0
            /\ steps' = <<>>
            /\ current_step' = EmptyDict
            /\ IF reply.raised THEN Deliver(Raise("ConnectionError"))
               ELSE IF raises_for_status(reply.status_code) THEN Deliver(Raise("HTTPError"))
               ELSE IF reply.body = "not json" THEN Deliver(Raise("JSONDecodeError"))
               ELSE IF reply.body = "no generated_text"
                   THEN Deliver(Raise("Invalid API response format"))
               ELSE pc' = "parse" /\ UNCHANGED <<plan, run, gen_failure>>
    /\ UNCHANGED <<i, stack, elapsed, line, nlines, boundaries, flush_due, deny_seen, harness_vars>>

(***************************************************************************)
(* generate_plan: one iteration of the loop over the lines (180-208), and  *)
(* the end of the loop with what follows it (210-234).                     *)
(***************************************************************************)
ParseLine(raw) ==
    /\ pc = "parse"
    /\ nlines < MaxLines
    /\ line' = raw
    /\ nlines' = nlines + 1
    /\ boundaries' = IF is_boundary(raw) THEN boundaries + 1 ELSE boundaries
    /\ flush_due' =
          IF is_boundary(raw) /\ has(current_step, "description")
          THEN flush_due + 1 ELSE flush_due
    /\ deny_seen' =
          (deny_seen \/ (has(current_step, "description") /\ is_deny_command_line(raw)))
    /\ LET st == parse_line([steps |-> steps, current_step |-> current_step, error |-> ""], raw)
       IN  IF st.error # ""
           THEN Deliver(Raise(st.error)) /\ UNCHANGED <<steps, current_step>>
           ELSE /\ steps' = st.steps
                /\ current_step' = st.current_step
                /\ UNCHANGED <<pc, plan, run, gen_failure>>
    /\ UNCHANGED <<api_url, retry_count, i, stack, elapsed, probes, last_probe,
                   url_at_call, rate_limited, gen_status, harness_vars>>

ParseEnd ==
    /\ pc = "parse"
    /\ nlines >= 1
    /\ steps' = flush(steps, current_step)
    /\ Deliver(checked_plan(flush(steps, current_step)))
    /\ UNCHANGED <<api_url, retry_count, current_step, i, stack, elapsed, probes,
                   last_probe, url_at_call, rate_limited, line, nlines, boundaries, flush_due,
                   deny_seen, gen_status, harness_vars>>

(***************************************************************************)
(* run_task: the confirmation (line 280).  The locals of generate_plan are *)
(* gone by now.                                                            *)
(***************************************************************************)
Confirm(answer) ==
    /\ pc = "confirm"
    /\ IF answer
       THEN /\ pc' = "step"
            /\ i' = 1
            /\ run' = [run EXCEPT !.state = "executing", !.confirmed = TRUE]
       ELSE /\ pc' = "return"
            /\ run' = [run EXCEPT !.state = "cancelled"]
            /\ UNCHANGED i
    /\ steps' = <<>>
    /\ current_step' = EmptyDict
    /\ line' = ""
    /\ nlines' = 0
    /\ boundaries' = 0
    /\ flush_due' = 0
    /\ deny_seen' = FALSE
    /\ gen_status' = 0
    /\ gen_failure' = ""
    /\ UNCHANGED <<api_url, retry_count, plan, stack, elapsed, probes, last_probe,
                   url_at_call, rate_limited, harness_vars>>

\* the entry of the log of a run for step k
Started(k) == [index |-> k, result |-> "running"]

Finished(log, result) == [log EXCEPT ![Len(log)].result = result]

(***************************************************************************)
(* run_task: the head of the loop over the plan (lines 284-291), up to the *)
(* call of subprocess.run in execute_command (lines 238-250).              *)
(***************************************************************************)
ExecStep ==
    /\ pc = "step"
    /\ IF i > Len(plan)
       THEN \* "Task completed successfully!"
            /\ pc' = "return"
            /\ run' = [run EXCEPT !.state = "completed"]
            /\ UNCHANGED <<i, elapsed>>
       ELSE IF ~has(plan[i], "command") \/ plan[i].command = ""
       THEN \* "Error: No command specified for this step": continue
            /\ i' = i + 1
            /\ UNCHANGED <<pc, run, elapsed>>
       ELSE IF is_empty_command(plan[i].command)
       THEN \* ValueError("Empty command received"), caught: (False, error_msg)
            /\ pc' = "retry"
            /\ run' = [run EXCEPT !.state = "failed",
                                  !.executed = Finished(Append(@, Started(i)), "failed")]
            /\ UNCHANGED <<i, elapsed>>
       ELSE /\ pc' = "running"
            /\ elapsed' = 0
            /\ run' = [run EXCEPT !.executed = Append(@, Started(i))]
            /\ UNCHANGED i
    /\ UNCHANGED <<api_url, retry_count, steps, current_step, plan, stack, probes,
                   last_probe, url_at_call, rate_limited, line, nlines, boundaries, flush_due,
                   deny_seen, gen_status, gen_failure, harness_vars>>

(***************************************************************************)
(* execute_command: time passes while subprocess.run waits (no timeout is  *)
(* passed to it), and the subprocess ends (lines 245-265).                 *)
(***************************************************************************)
ProcTick ==
    /\ pc = "running"
    /\ elapsed < MaxElapsed
    /\ elapsed' = elapsed + 1
    /\ UNCHANGED <<pc, api_url, retry_count, steps, current_step, plan, i, stack,
                   history_vars, harness_vars>>

ProcEnd(end) ==
    /\ pc = "running"
    /\ elapsed' = 0
    /\ IF command_success(end)
       THEN /\ pc' = "step"
            /\ i' = i + 1
            /\ run' = [run EXCEPT !.executed = Finished(@, "ok")]
       ELSE /\ pc' = "retry"
            /\ run' = [run EXCEPT !.state = "failed", !.executed = Finished(@, "failed")]
            /\ UNCHANGED i
    /\ UNCHANGED <<api_url, retry_count, steps, current_step, plan, stack, probes,
                   last_probe, url_at_call, rate_limited, line, nlines, boundaries, flush_due,
                   deny_seen, gen_status, gen_failure, harness_vars>>

(***************************************************************************)
(* run_task: after a failed step (lines 298-302).  A suspended call keeps  *)
(* its loop position (and its history); it reads no step of its plan after *)
(* the call it waits for has returned.                                     *)
(***************************************************************************)
Frame == [i |-> i, run |-> run]

RetryChoice(answer) ==
    /\ pc = "retry"
    /\ IF answer
       THEN \* self.run_task(new_task)
            /\ Len(stack) < MaxDepth
            /\ stack' = Append(stack, Frame)
            /\ plan' = <<>>
            /\ i' = 0
            /\ run' = NewRun
            /\ rate_limited' = 0
            /\ EnterGeneratePlan
       ELSE /\ pc' = "return"
            /\ UNCHANGED <<api_url, retry_count, plan, i, stack, probes, last_probe,
                           url_at_call, rate_limited, run>>
    /\ UNCHANGED <<steps, current_step, elapsed, line, nlines, boundaries, flush_due, deny_seen,
                   gen_status, gen_failure, harness_vars>>

\* a run_task that goes on with its next step after the retry
resume_with_next_step(frame) == [pc |-> "step", i |-> frame.i + 1]

\* where a suspended run_task call goes on when self.run_task(new_task) has
\* returned: to the return of line 302
resume_after_retry(frame) == [pc |-> "return", i |-> frame.i]

Returns ==
    /\ pc = "return"
    /\ IF stack = <<>>
       THEN \* back in main()
            /\ pc' = "main"
            /\ i' = 0
            /\ run' = NoRun
            /\ UNCHANGED stack
       ELSE LET frame == stack[Len(stack)]
            IN  /\ stack' = SubSeq(stack, 1, Len(stack) - 1)
                /\ pc' = resume_after_retry(frame).pc
                /\ i' = resume_after_retry(frame).i
                /\ run' = frame.run
    /\ plan' = <<>>
    /\ UNCHANGED <<api_url, retry_count, steps, current_step, elapsed, probes,
                   last_probe, url_at_call, rate_limited, line, nlines, boundaries, flush_due,
                   deny_seen, gen_status, gen_failure, harness_vars>>

Next ==
    \/ \E task \in Tasks : MainPrompt(task)
    \/ \E reply \in HttpReplies : Probe(reply)
    \/ \E reply \in HttpReplies : GenReply(reply)
    \/ \E raw \in AgentLines : ParseLine(raw)
    \/ ParseEnd
    \/ \E answer \in BOOLEAN : Confirm(answer)
    \/ ExecStep
    \/ ProcTick
    \/ \E end \in ProcessEnds : ProcEnd(end)
    \/ \E answer \in BOOLEAN : RetryChoice(answer)
    \/ Returns

Spec == Init /\ [][Next]_vars

(***************************************************************************)
(* Parser harness: the loop of generate_plan and what follows it, from the *)
(* entry of the loop (line 177) to the return of the plan, on every plan   *)
(* text of at most MaxLines lines of ParserLines.                          *)
(***************************************************************************)
InitParse ==
    /\ pc = "parse"
    /\ api_url = PrimaryUrl
    /\ retry_count = 0
    /\ steps = <<>>
    /\ current_step = EmptyDict
    /\ plan = <<>>
    /\ i = 0
    /\ stack = <<>>
    /\ elapsed = 0
    /\ probes = 0
    /\ last_probe = 0
    /\ url_at_call = PrimaryUrl
    /\ rate_limited = 0
    /\ line = ""
    /\ nlines = 0
    /\ boundaries = 0
    /\ flush_due = 0
    /\ deny_seen = FALSE
    /\ gen_status = 200
    /\ gen_failure = ""
    /\ run = NewRun
    /\ cmd = ""
    /\ converted = NotCalled

NextParse ==
    \/ \E raw \in ParserLines : ParseLine(raw)
    \/ ParseEnd

SpecParse == InitParse /\ [][NextParse]_vars

(***************************************************************************)
(* Translator harness: _convert_to_windows_command applied to every        *)
(* concatenation of at most MaxTokens tokens.                              *)
(***************************************************************************)
CmdTokens ==
    {"rm ", "cat ", "touch ", "ls", " -la", "a.txt", Backquote, " ", "dir",
     "echo -e", " \"x\\ny\"", "./", "mkdir ", "b/c", "pwd", "chmod", "nano "}

RECURSIVE concat(_)
concat(ts) == IF ts = <<>> THEN "" ELSE Head(ts) \o concat(Tail(ts))

CmdInputs == {concat(ts) : ts \in UNION {[1..n -> CmdTokens] : n \in 0..MaxTokens}}

InitTranslate ==
    /\ AgentInit
    /\ cmd \in CmdInputs
    /\ converted = NotCalled

Translate ==
    /\ converted = NotCalled
    /\ converted' = _convert_to_windows_command(cmd)
    /\ UNCHANGED <<cmd, agent_vars, history_vars>>

NextTranslate == Translate

SpecTranslate == InitTranslate /\ [][NextTranslate]_vars

(***************************************************************************)
(* Properties of generate_plan.                                            *)
(***************************************************************************)

\* C1: when a Command: value of a step of the plan text holds a deny-listed
\* pattern, generate_plan returns no plan: its caller is never handed a list
\* of steps, neither the remaining steps nor a substitute plan.  (Stated
\* for the texts on which nothing but the safety check can fail.)
C1_UnsafeTextReturnsNoPlan ==
    (deny_seen /\ gen_failure \in {"", "Unsafe command detected"}) => pc # "confirm"

\* the exceptions of the failures C2 lists, beside the network exception and
\* the error status
ListedFailures ==
    {"JSONDecodeError", "Invalid API response format", "No valid steps generated",
     "IndexError"}

\* C2 as stated: generate_plan never propagates an exception, and after a
\* network exception, an answer whose status is neither 200 nor 429, a body
\* without [0]["generated_text"], a text with no usable step or an exception
\* of the translator, it returns the one fixed fallback step.
C2_EveryNon200GivesFallback ==
    /\ pc # "crashed"
    /\ (pc = "confirm" /\ (gen_status # 200 \/ gen_failure \in ListedFailures))
            => plan = FallbackPlan

\* C2, amended: generate_plan never propagates an exception, and after a
\* network exception, an answer with an error status (4xx or 5xx) other than
\* 429, a body without [0]["generated_text"], a text with no usable step or
\* an exception of the translator, it returns exactly one step, the fixed
\* fallback step.
C2_FailureGivesFallback ==
    /\ pc # "crashed"
    /\ (pc = "confirm"
        /\ (\/ gen_status = 0
            \/ (400 <= gen_status /\ gen_status < 600)
            \/ gen_failure \in ListedFailures))
            => (plan = FallbackPlan /\ Len(plan) = 1)

\* an exception of the translator has been turned into the fallback plan
C2_Witness == pc = "confirm" /\ gen_failure = "IndexError" /\ plan = FallbackPlan

\* C3: every step of a returned plan has a command that is a non-empty
\* string and does not start with 'rem Skipping', and a step the loop
\* appended without a command is not in the returned plan.
C3_ReturnedStepsHaveCommand ==
    /\ \A k \in 1..Len(plan) :
            /\ has(plan[k], "command")
            /\ plan[k].command # ""
            /\ ~startswith(plan[k].command, "rem Skipping")
    /\ pc = "confirm" =>
            \A k \in 1..Len(steps) :
                ~has(steps[k], "command") => \A j \in 1..Len(plan) : plan[j] # steps[k]

\* a parsed plan has been returned, and a step the loop appended is not in it
C3_Witness == pc = "confirm" /\ gen_failure = "" /\ 1 <= Len(plan) /\ Len(plan) < Len(steps)

\* C4 as stated: the loop appends at most as many steps as the text has
\* boundary lines, and every appended step has a non-empty description.
C4_NonEmptyDescriptions ==
    /\ Len(steps) <= boundaries
    /\ \A k \in 1..Len(steps) : has(steps[k], "description") /\ steps[k].description # ""

\* C4, amended: the loop appends at most as many steps as the text it splits
\* has boundary lines, and every appended step has a description field,
\* whose string may be empty.
C4_AtMostOneStepPerBoundary ==
    /\ Len(steps) <= boundaries
    /\ \A k \in 1..Len(steps) : has(steps[k], "description")

\* two boundary lines gave two steps, the first with the empty description
C4_Witness ==
    pc = "confirm" /\ boundaries = 2 /\ Len(steps) = 2 /\ steps[1].description = ""

\* C5: the last Command: line of a step decides its command: after a
\* Command: line whose value is 'n/a', 'none' or 'no command' in any letter
\* case the step carries no command field, also when an earlier Command:
\* line of the step gave a real command.
C5_NoCommandLineClearsCommand ==
    (pc = "parse" /\ nlines >= 1 /\ has(current_step, "description")
        /\ is_no_command_line(line)) => ~has(current_step, "command")

\* C11: each of the three boundary forms starts a new step: a numbered
\* 'k: Description:' line, a line starting with 'Step' and a line starting
\* with 'Description:' each flush the accumulated step when it has a
\* description, so the loop has appended one step for every such line, and
\* each leaves a new accumulator, holding no command and no validation of
\* the step before it; two 'Description:/Command:' blocks in a row so give
\* two steps.
C11_BoundaryStartsNewStep ==
    pc = "parse" =>
        /\ Len(steps) = flush_due
        /\ (nlines >= 1 /\ is_boundary(line)) =>
                /\ ~has(current_step, "command")
                /\ ~has(current_step, "validation")

(***************************************************************************)
(* Properties of _convert_to_windows_command.                              *)
(***************************************************************************)
\* the prefixes of the rewrite rules
RulePrefixes ==
    {"rm ", "touch ", "echo -e", "ls", "pwd", "chmod", "cat ", "./", "nano ", "mkdir "}

matches_rule(x) == \E prefix \in RulePrefixes : startswith(x, prefix)

\* x neither begins nor ends with a backquote or a whitespace character
is_bare(x) ==
    \/ x = ""
    \/ /\ Char(x, 1) \notin Whitespace \cup {Backquote}
       /\ Char(x, Len(x)) \notin Whitespace \cup {Backquote}

\* C6 as stated: a command that starts with none of the prefixes of the
\* rewrite rules is returned unchanged, character for character.
C6_UnmatchedReturnedUnchanged ==
    (converted # NotCalled /\ ~matches_rule(cmd)) => converted = Return(cmd)

\* C6, amended: the translator first strips backquotes and then whitespace
\* from both ends of the command; when what is left starts with none of the
\* prefixes it is returned as it is, so a command that starts with none of
\* the prefixes and neither begins nor ends with a backquote or a whitespace
\* character is returned unchanged.
C6_UnmatchedReturnedStripped ==
    converted # NotCalled =>
        /\ (~matches_rule(cmd) /\ is_bare(cmd)) => converted = Return(cmd)
        /\ LET stripped == strip(strip_chars(cmd, {Backquote}))
           IN  ~matches_rule(stripped) => converted = Return(stripped)

\* a command between backquotes came back without them
C6_Witness ==
    /\ converted # NotCalled
    /\ ~matches_rule(cmd)
    /\ ~is_bare(cmd)
    /\ converted = Return("b/c")

\* what follows the leading word of a command
argument(x, word) == SubSeq(x, Len(word) + 1, Len(x))

\* C7: the prefix rewrites replace the leading word only and keep the
\* argument: 'rm A' becomes 'del A', 'cat A' becomes 'type A', 'touch A'
\* becomes 'echo. > A', and 'ls -la' becomes 'dir' (for commands with no
\* backquote or whitespace around them, which the translator would strip).
C7_RewritesKeepArgument ==
    (converted # NotCalled /\ is_bare(cmd)) =>
        /\ startswith(cmd, "rm ") => converted = Return("del " \o argument(cmd, "rm "))
        /\ startswith(cmd, "cat ") => converted = Return("type " \o argument(cmd, "cat "))
        /\ startswith(cmd, "touch ") =>
                converted = Return("echo. > " \o argument(cmd, "touch "))
        /\ cmd = "ls -la" => converted = Return("dir")

(***************************************************************************)
(* Properties of _wait_for_model.                                          *)
(***************************************************************************)
\* C8: the readiness check issues at most 3 probes; while it probes, every
\* probe so far has failed and the endpoint is the one of the call; it
\* returns at the first probe that answers 200, with the endpoint unchanged;
\* after three probes that answered another status or raised it returns
\* with the endpoint switched to the fallback model; in both cases
\* generate_plan goes on to its request, and nothing is raised.
C8_AtMostThreeProbes ==
    /\ probes <= 3
    /\ pc # "crashed"
    /\ pc = "probe" => (probes < 3 /\ retry_count = probes /\ api_url = url_at_call)
    /\ pc = "request" =>
            \/ last_probe = 200 /\ retry_count = probes - 1 /\ api_url = url_at_call
            \/ last_probe # 200 /\ retry_count = 3 /\ probes = 3 /\ api_url = FallbackUrl
    /\ probes = 3 => pc = "request"

\* three probes failed, and the call that began at the primary endpoint is
\* at its request with the fallback endpoint
C8_Witness ==
    /\ pc = "request"
    /\ probes = 3
    /\ last_probe = 429
    /\ url_at_call = PrimaryUrl
    /\ api_url = FallbackUrl

\* C12: rate-limit retries are bounded over the whole of generate_plan: when
\* every request is answered 429, the call ends after 3 attempts and falls
\* back, so it never posts its generation request again after three of them
\* were answered 429.
C12_RateLimitRetriesBounded == pc = "request" => rate_limited < 3

(***************************************************************************)
(* Properties of execute_command and run_task.                             *)
(***************************************************************************)
\* C9: execute_command does not wait for a subprocess beyond the execution
\* timeout: by then it has returned success=false with a timeout message.
C9_WaitEndsAtTimeout == pc = "running" => elapsed <= ExecTimeout

\* the log of one run_task call
RunOk(r) ==
    LET n == Len(r.executed)
    IN  /\ n <= r.len
        /\ \A k \in 1..n : r.executed[k].index = k
        /\ \A k \in 1..(n - 1) : r.executed[k].result = "ok"
        /\ n > 0 => r.confirmed
        /\ r.state \in {"none", "planning", "awaiting", "cancelled"} => n = 0
        /\ r.state = "completed" =>
                (n = r.len /\ \A k \in 1..n : r.executed[k].result = "ok")
        /\ (n > 0 /\ r.executed[n].result = "failed") <=> r.state = "failed"

\* C10: in every run of run_task, the one going on and the suspended ones,
\* no command is started before the user confirmed the plan of the run and
\* none after declining; the steps are started in plan order, step k+1 only
\* when step k has returned success; the run is completed only when every
\* step of its plan succeeded; after a failed step no step of that plan is
\* started, whether the user retries or not.
C10_RunsInOrderAfterConfirmation ==
    /\ RunOk(run)
    /\ \A d \in 1..Len(stack) : RunOk(stack[d].run) /\ stack[d].run.state = "failed"
    /\ pc = "running" =>
            /\ run.state = "executing"
            /\ run.executed[Len(run.executed)] = Started(i)
    /\ pc # "running" => \A k \in 1..Len(run.executed) : run.executed[k].result # "running"

\* the retry of a failed run has completed a plan of two steps
C10_Witness ==
    /\ stack # <<>>
    /\ run.state = "completed"
    /\ Len(run.executed) = 2

\* a command that, lowercased, contains a substring of the deny list
is_deny_listed(command) ==
    \E p \in {"rm -rf /", "mkfs", ":(){:|:&};:", "format c:"} : contains(lower(command), p)

\* C13: the safety check reads the commands after translation and filtering:
\* in every plan generate_plan returns, parsed or fallback, no step's
\* command, lowercased, contains a substring of the deny list, and no such
\* command is passed to execute_command by run_task.
C13_NoDenyListedCommandReturned ==
    /\ \A k \in 1..Len(plan) : has(plan[k], "command") => ~is_deny_listed(plan[k].command)
    /\ pc = "running" => ~is_deny_listed(plan[i].command)

\* the safety check has refused a plan, and the fallback plan was returned
C13_Witness ==
    /\ pc = "confirm"
    /\ gen_failure = "Unsafe command detected"
    /\ deny_seen
    /\ plan = FallbackPlan

====
